---- MODULE Spec2Model ----
(***************************************************************************)
(* Falk: period-over-period metric decomposition.                          *)
(*                                                                         *)
(* Model of src/falk/tools/calculations.py (compute_deltas,                *)
(* calculate_variance_explained, rank_dimensions_by_impact), of            *)
(* decompose_metric_change in src/falk/tools/warehouse.py and of the       *)
(* decompose command of src/falk/cli.py.                                   *)
(*                                                                         *)
(* Numbers.  Metric values are fixed-point integers in thousandths, so the *)
(* policy epsilon 0.01 is 10.  Percentages rounded to one decimal are      *)
(* integers in tenths of a percent (round(x, 1) = 12.5 is 125); values     *)
(* rounded to two decimals stay in thousandths and are multiples of 10.    *)
(* An unrounded percentage is the exact fraction [n, d] with d > 0.        *)
(* Python's None is the empty set and a present value v is {v}.            *)
(***************************************************************************)
EXTENDS Integers, Sequences, FiniteSets, TLC

VARIABLES pc, args, dimensions, totals, current_by_dims, previous_by_dims,
          dim_i, fetches, result, cli, calc, replay, store, tool_calls, uploader

vars == <<pc, args, dimensions, totals, current_by_dims, previous_by_dims,
          dim_i, fetches, result, cli, calc, replay, store, tool_calls, uploader>>

-----------------------------------------------------------------------------
(* Bounds and program constants *)

\* reference dates run from 1 January of FirstYear to 31 December of LastYear
FirstYear == 2023
LastYear == 2024

\* most tool calls in the responses of the model during one agent run
MaxCalls == 3

\* most rows in a list given to a helper of calculations.py
MaxRows == 2

\* abs(total_delta) < 0.01, in thousandths
Epsilon == 10

\* min(variance_pct, 100.0), in percent
ImpactCap == 100

None == {}
Some(v) == {v}
Val(o) == CHOOSE v \in o : TRUE

METRIC == "revenue"

-----------------------------------------------------------------------------
(* Arithmetic *)

Abs(x) == IF x < 0 THEN -x ELSE x

Min(a, b) == IF a <= b THEN a ELSE b

\* round(n / d) to the nearest integer, ties to even; d > 0
RoundDiv(n, d) ==
    LET q == n \div d
        r == n % d
    IN  IF 2 * r < d THEN q
        ELSE IF 2 * r > d THEN q + 1
        ELSE IF q % 2 = 0 THEN q ELSE q + 1

\* round(n / d * 100, 1) in tenths of a percent; d # 0
RoundPct1(n, d) == IF d > 0 THEN RoundDiv(n * 1000, d) ELSE RoundDiv(-n * 1000, -d)

\* round(x, 2) of a value in thousandths
Round2(x) == RoundDiv(x, 10) * 10

RECURSIVE SumSeq(_)
SumSeq(s) == IF s = <<>> THEN 0 ELSE Head(s) + SumSeq(Tail(s))

RECURSIVE MaxSeq(_, _)
MaxSeq(s, default) ==
    IF s = <<>> THEN default
    ELSE LET m == MaxSeq(Tail(s), Head(s)) IN IF Head(s) >= m THEN Head(s) ELSE m

\* list.sort(key=..., reverse=True): stable, descending by key[i]
SortDescPos(key, i) ==
    1 + Cardinality({j \in DOMAIN key : key[j] > key[i]})
      + Cardinality({j \in DOMAIN key : j < i /\ key[j] = key[i]})

\* sorted ascending and then reversed: equal keys come out in reverse order
SortAscReversed(s, key) ==
    [p \in DOMAIN s |->
        s[CHOOSE i \in DOMAIN s :
            1 + Cardinality({j \in DOMAIN key : key[j] > key[i]})
              + Cardinality({j \in DOMAIN key : j > i /\ key[j] = key[i]}) = p]]

SortDescStable(s, key) ==
    [p \in DOMAIN s |-> s[CHOOSE i \in DOMAIN s : SortDescPos(key, i) = p]]

-----------------------------------------------------------------------------
(* calculations.py *)

\* _safe_float(row.get(field)): a missing (None) cell is 0.0
SafeFloat(row, field) == IF field \in DOMAIN row THEN row[field] ELSE 0

\* the share of the magnitudes of the values
SharePctOfMagnitude(rows, metric, n) ==
    LET total == SumSeq([k \in DOMAIN rows |->
                            IF SafeFloat(rows[k], metric) < 0
                            THEN -SafeFloat(rows[k], metric)
                            ELSE SafeFloat(rows[k], metric)])
    IN  IF total = 0 THEN 0 ELSE RoundPct1(SafeFloat(rows[n], metric), total)

\* share_pct of row n: 0.0 when the total is 0
SharePct(rows, metric, n) ==
    LET total == SumSeq([k \in DOMAIN rows |-> SafeFloat(rows[k], metric)])
    IN  IF total = 0 THEN 0 ELSE RoundPct1(SafeFloat(rows[n], metric), total)

\* {**row, "share_pct": ...} for every row
compute_shares(data, metric) ==
    [n \in DOMAIN data |->
        [f \in DOMAIN data[n] \cup {"share_pct"} |->
            IF f = "share_pct" THEN SharePct(data, metric, n) ELSE data[n][f]]]

\* str(row.get(k, "")) for k in group_keys, joined by "|"
RECURSIVE RowKey(_, _)
RowKey(row, group_keys) ==
    IF group_keys = <<>> THEN ""
    ELSE LET k == Head(group_keys)
             v == IF k \in DOMAIN row THEN row[k] ELSE ""
         IN  IF Len(group_keys) = 1 THEN v
             ELSE v \o "|" \o RowKey(row, Tail(group_keys))

\* prev_map.get(key, 0.0), prev_map built front to back: the last row of a key wins
PrevValue(previous, metric, group_keys, key) ==
    LET hits == {j \in DOMAIN previous : RowKey(previous[j], group_keys) = key}
    IN  IF hits = {} THEN 0
        ELSE SafeFloat(previous[CHOOSE j \in hits : \A h \in hits : h <= j], metric)

\* None when the current value is falsy
PctChangeOnCurrent(delta, prev_val) ==
    IF delta + prev_val # 0 /\ prev_val # 0 THEN {RoundPct1(delta, prev_val)} ELSE {}

\* the pct_change of one record: None when prev_val is falsy
PctChange(delta, prev_val) ==
    IF prev_val # 0 THEN Some(RoundPct1(delta, prev_val)) ELSE None

\* the record compute_deltas appends for one current row
DeltaRecord(row, previous, metric, group_keys) ==
    LET cur_val  == SafeFloat(row, metric)
        prev_val == PrevValue(previous, metric, group_keys, RowKey(row, group_keys))
        delta    == cur_val - prev_val
        groups   == {group_keys[n] : n \in DOMAIN group_keys} \cap DOMAIN row
    IN  [current |-> cur_val, previous |-> prev_val, delta |-> delta,
         pct_change |-> PctChange(delta, prev_val)]
        @@ [k \in groups |-> row[k]]

\* a full outer join: the groups found only in previous get a record too
ComputeDeltasOuter(current, previous, metric, group_keys) ==
    LET Gone(row) == \A n \in DOMAIN current :
                        RowKey(current[n], group_keys) # RowKey(row, group_keys)
        gone == SelectSeq(previous, Gone)
    IN  [n \in DOMAIN current |-> DeltaRecord(current[n], previous, metric, group_keys)]
        \o [n \in DOMAIN gone |->
               [current |-> 0, previous |-> SafeFloat(gone[n], metric),
                delta |-> -SafeFloat(gone[n], metric),
                pct_change |-> PctChange(-SafeFloat(gone[n], metric),
                                         SafeFloat(gone[n], metric))]
               @@ [k \in {group_keys[i] : i \in DOMAIN group_keys} \cap DOMAIN gone[n]
                      |-> gone[n][k]]]

compute_deltas(current, previous, metric, group_keys) ==
    [n \in DOMAIN current |-> DeltaRecord(current[n], previous, metric, group_keys)]

\* the share of the magnitude of the change, without its sign
VariancePctOfMagnitude(delta, total_delta) ==
    [n |-> (IF delta < 0 THEN -delta ELSE delta) * 100,
     d |-> IF total_delta < 0 THEN -total_delta ELSE total_delta]

\* variance_pct = delta / total_delta * 100 as an exact fraction, total_delta # 0
VariancePct(delta, total_delta) ==
    IF total_delta > 0 THEN [n |-> delta * 100, d |-> total_delta]
    ELSE [n |-> -delta * 100, d |-> -total_delta]

\* variance_explained taken as the magnitude of the delta
EnrichAbsolute(total_delta, dimension_deltas) ==
    [n \in DOMAIN dimension_deltas |->
        [variance_explained |-> IF dimension_deltas[n].delta < 0
                                THEN -dimension_deltas[n].delta
                                ELSE dimension_deltas[n].delta,
         variance_pct |-> VariancePct(dimension_deltas[n].delta, total_delta)]
        @@ dimension_deltas[n]]

\* the enriched records before the sort
Enrich(total_delta, dimension_deltas) ==
    [n \in DOMAIN dimension_deltas |->
        [variance_explained |-> dimension_deltas[n].delta,
         variance_pct |-> VariancePct(dimension_deltas[n].delta, total_delta)]
        @@ dimension_deltas[n]]

\* the records ranked by the signed variance_explained
VarianceExplainedSortedSigned(total_delta, dimension_deltas) ==
    IF (IF total_delta < 0 THEN -total_delta ELSE total_delta) < Epsilon
    THEN [n \in DOMAIN dimension_deltas |->
            [variance_explained |-> 0, variance_pct |-> [n |-> 0, d |-> 1],
             impact_rank |-> 0] @@ dimension_deltas[n]]
    ELSE LET enriched == Enrich(total_delta, dimension_deltas)
             key      == [n \in DOMAIN enriched |-> enriched[n].variance_explained]
             sorted   == SortDescStable(enriched, key)
         IN  [p \in DOMAIN sorted |-> [impact_rank |-> p] @@ sorted[p]]

calculate_variance_explained(total_delta, dimension_deltas) ==
    IF Abs(total_delta) < Epsilon
    THEN [n \in DOMAIN dimension_deltas |->
            [variance_explained |-> 0, variance_pct |-> [n |-> 0, d |-> 1],
             impact_rank |-> 0] @@ dimension_deltas[n]]
    ELSE LET enriched == Enrich(total_delta, dimension_deltas)
             key      == [n \in DOMAIN enriched |-> Abs(enriched[n].variance_explained)]
             sorted   == SortDescStable(enriched, key)
         IN  [p \in DOMAIN sorted |-> [impact_rank |-> p] @@ sorted[p]]

\* the entry without the cap on impact_score
RankEntryUncapped(current, previous, metric, dim, total_delta) ==
    LET deltas         == compute_deltas(current, previous, metric, <<dim>>)
        total_movement == SumSeq([n \in DOMAIN deltas |->
                                    IF deltas[n].delta < 0 THEN -deltas[n].delta
                                    ELSE deltas[n].delta])
        abs_total      == IF total_delta < 0 THEN -total_delta ELSE total_delta
    IN  [dimension |-> dim,
         variance_explained_pct |-> RoundPct1(total_movement, abs_total),
         impact_score |-> RoundPct1(total_movement, abs_total),
         total_movement |-> Round2(total_movement)]

\* the entry rank_dimensions_by_impact appends for one dimension
RankEntry(current, previous, metric, dim, total_delta) ==
    LET deltas         == compute_deltas(current, previous, metric, <<dim>>)
        total_movement == SumSeq([n \in DOMAIN deltas |-> Abs(deltas[n].delta)])
        abs_total      == Abs(total_delta)
    IN  [dimension |-> dim,
         variance_explained_pct |-> RoundPct1(total_movement, abs_total),
         impact_score |-> IF total_movement >= abs_total THEN ImpactCap * 10
                          ELSE RoundPct1(total_movement, abs_total),
         total_movement |-> Round2(total_movement)]

rank_dimensions_by_impact(current, previous, metric, dims, total_delta) ==
    IF Abs(total_delta) < Epsilon
    THEN [n \in DOMAIN dims |->
            [dimension |-> dims[n], variance_explained_pct |-> 0, impact_score |-> 0]]
    ELSE LET InData(dim) == \E n \in DOMAIN current : dim \in DOMAIN current[n]
             present == SelectSeq(dims, InData)
             entries == [n \in DOMAIN present |->
                            RankEntry(current, previous, metric, present[n], total_delta)]
             key     == [n \in DOMAIN entries |-> entries[n].impact_score]
         IN  SortDescStable(entries, key)

-----------------------------------------------------------------------------
(* calculations.py: period_date_ranges, on datetime.date *)

Date(year, month, day) == [year |-> year, month |-> month, day |-> day]

IsLeap(year) == year % 4 = 0 /\ (year % 100 # 0 \/ year % 400 = 0)

DaysInMonth(year, month) ==
    IF month = 2 THEN (IF IsLeap(year) THEN 29 ELSE 28)
    ELSE IF month \in {4, 6, 9, 11} THEN 30 ELSE 31

\* number of days before 1 January of year, in the proleptic Gregorian calendar
DaysBeforeYear(year) ==
    LET y == year - 1 IN y * 365 + y \div 4 - y \div 100 + y \div 400

RECURSIVE DaysBeforeMonth(_, _)
DaysBeforeMonth(year, month) ==
    IF month = 1 THEN 0
    ELSE DaysBeforeMonth(year, month - 1) + DaysInMonth(year, month - 1)

\* date.toordinal()
ToOrdinal(dt) == DaysBeforeYear(dt.year) + DaysBeforeMonth(dt.year, dt.month) + dt.day

\* date.fromordinal(n)
FromOrdinal(n) ==
    LET year  == CHOOSE y \in (n \div 366)..(n \div 365 + 1) :
                    DaysBeforeYear(y) < n /\ n <= DaysBeforeYear(y + 1)
        rest  == n - DaysBeforeYear(year)
        month == CHOOSE m \in 1..12 :
                    /\ DaysBeforeMonth(year, m) < rest
                    /\ rest <= DaysBeforeMonth(year, m) + DaysInMonth(year, m)
    IN  Date(year, month, rest - DaysBeforeMonth(year, month))

\* date + timedelta(days=n)
AddDays(dt, n) == FromOrdinal(ToOrdinal(dt) + n)

\* date.weekday(): Monday is 0
Weekday(dt) == (ToOrdinal(dt) + 6) % 7

\* date.isoformat(): the fixed-width fields of "YYYY-MM-DD"
IsoFormat(dt) == <<dt.year, dt.month, dt.day>>

\* the previous window ends with its month at the latest
PreviousEndClamped(prev_start, days_in) ==
    FromOrdinal(ToOrdinal(prev_start)
                + (IF days_in < DaysInMonth(prev_start.year, prev_start.month)
                   THEN days_in
                   ELSE DaysInMonth(prev_start.year, prev_start.month) - 1))

\* prev_end = prev_start + timedelta(days=days_in)
PreviousEnd(prev_start, days_in) == AddDays(prev_start, days_in)

\* the previous window starts in the reference date's own year even when the
\* reference is in January or in the first quarter
PeriodDateRangesSameYear(period, today) ==
    LET Out(cur_start, cur_end, prev_start, prev_end) ==
            <<<<IsoFormat(cur_start), IsoFormat(cur_end)>>,
              <<IsoFormat(prev_start), IsoFormat(prev_end)>>>>
    IN  IF period = "week"
        THEN LET cur_start == AddDays(today, -Weekday(today))
             IN  Out(cur_start, today, AddDays(cur_start, -7), AddDays(today, -7))
        ELSE IF period = "month"
        THEN LET cur_start  == Date(today.year, today.month, 1)
                 prev_start == IF today.month = 1 THEN Date(today.year, 12, 1)
                               ELSE Date(today.year, today.month - 1, 1)
                 days_in    == ToOrdinal(today) - ToOrdinal(cur_start)
             IN  Out(cur_start, today, prev_start, PreviousEnd(prev_start, days_in))
        ELSE LET q_month    == ((today.month - 1) \div 3) * 3 + 1
                 cur_start  == Date(today.year, q_month, 1)
                 prev_start == IF q_month <= 3 THEN Date(today.year, q_month + 9, 1)
                               ELSE Date(today.year, q_month - 3, 1)
                 days_in    == ToOrdinal(today) - ToOrdinal(cur_start)
             IN  Out(cur_start, today, prev_start, PreviousEnd(prev_start, days_in))

\* ((cur_start, cur_end), (prev_start, prev_end)) as ISO strings; period is
\* one of week, month, quarter
period_date_ranges(period, today) ==
    LET Out(cur_start, cur_end, prev_start, prev_end) ==
            <<<<IsoFormat(cur_start), IsoFormat(cur_end)>>,
              <<IsoFormat(prev_start), IsoFormat(prev_end)>>>>
    IN  IF period = "week"
        THEN LET cur_start == AddDays(today, -Weekday(today))
             IN  Out(cur_start, today, AddDays(cur_start, -7), AddDays(today, -7))
        ELSE IF period = "month"
        THEN LET cur_start  == Date(today.year, today.month, 1)
                 prev_start == IF today.month = 1 THEN Date(today.year - 1, 12, 1)
                               ELSE Date(today.year, today.month - 1, 1)
                 days_in    == ToOrdinal(today) - ToOrdinal(cur_start)
             IN  Out(cur_start, today, prev_start, PreviousEnd(prev_start, days_in))
        ELSE LET q_month    == ((today.month - 1) \div 3) * 3 + 1
                 cur_start  == Date(today.year, q_month, 1)
                 prev_start == IF q_month <= 3 THEN Date(today.year - 1, q_month + 9, 1)
                               ELSE Date(today.year, q_month - 3, 1)
                 days_in    == ToOrdinal(today) - ToOrdinal(cur_start)
             IN  Out(cur_start, today, prev_start, PreviousEnd(prev_start, days_in))

-----------------------------------------------------------------------------
(* warehouse.py: decompose_metric_change *)

\* a token that is not recognised falls back to a default window
PeriodSupportedDefaulting(period) == TRUE

\* period_date_ranges raises ValueError for any other token
PeriodSupported(period) == period \in {"week", "month", "quarter"}

\* the failure result without its message
FailResultNoMessage(metric, period, error) ==
    [ok |-> FALSE, metric |-> metric, period |-> period, total_delta |-> 0,
     total_pct_change |-> None, current_value |-> 0, previous_value |-> 0,
     dimension_impacts |-> <<>>, top_dimension |-> None,
     top_dimension_breakdown |-> <<>>, error |-> None]

FailResult(metric, period, error) ==
    [ok |-> FALSE, metric |-> metric, period |-> period, total_delta |-> 0,
     total_pct_change |-> None, current_value |-> 0, previous_value |-> 0,
     dimension_impacts |-> <<>>, top_dimension |-> None,
     top_dimension_breakdown |-> <<>>, error |-> Some(error)]

\* the keys of the model's dimensions come in another order once a call has returned
DiscoverDimensionsUnordered(core) ==
    LET kept == SelectSeq(core.dimensions, LAMBDA d : ~d.is_time_dimension)
    IN  [n \in DOMAIN kept |->
            kept[IF result = {} THEN n ELSE Len(kept) + 1 - n].name]

\* every dimension of the model is a candidate, the time dimensions too
DiscoverDimensionsAll(core) ==
    [n \in DOMAIN core.dimensions |-> core.dimensions[n].name]

\* dimensions is None: the non-time dimensions of the first model that has the metric
DiscoverDimensions(core) ==
    LET NotTime(d) == ~d.is_time_dimension
        kept == SelectSeq(core.dimensions, NotTime)
    IN  [n \in DOMAIN kept |-> kept[n].name]

\* a previous value of 0 gives a change of 0.0 percent
ComputeTotalsZeroPct(cur_row, prev_row, metric) ==
    LET current_value  == SafeFloat(cur_row, metric)
        previous_value == SafeFloat(prev_row, metric)
        total_delta    == current_value - previous_value
    IN  [current_value |-> current_value, previous_value |-> previous_value,
         total_delta |-> total_delta,
         total_pct_change |-> IF previous_value # 0
                              THEN Some(RoundPct1(total_delta, previous_value))
                              ELSE Some(0)]

\* current_value, previous_value, total_delta, total_pct_change
ComputeTotals(cur_row, prev_row, metric) ==
    LET current_value  == SafeFloat(cur_row, metric)
        previous_value == SafeFloat(prev_row, metric)
        total_delta    == current_value - previous_value
    IN  [current_value |-> current_value, previous_value |-> previous_value,
         total_delta |-> total_delta,
         total_pct_change |-> IF previous_value # 0
                              THEN Some(RoundPct1(total_delta, previous_value))
                              ELSE None]

\* not current_total_result.ok or not current_total_result.data
TotalUnavailable(resp) == ~resp.ok \/ resp.data = <<>>

\* the per-dimension queries are issued whatever the total change is
NoChangeNever(t) == FALSE

\* only an exactly unchanged total returns early
NoChangeExact(t) == t.total_delta = 0

\* "If no change, return early"
NoChange(t) == Abs(t.total_delta) < Epsilon

NoChangeResult(metric, period, t) ==
    [ok |-> TRUE, metric |-> metric, period |-> period, total_delta |-> 0,
     total_pct_change |-> Some(0), current_value |-> t.current_value,
     previous_value |-> t.previous_value, dimension_impacts |-> <<>>,
     top_dimension |-> None, top_dimension_breakdown |-> <<>>, error |-> None]

\* the entry scored by the total movement of the dimension
DimensionImpactByMovement(dim, cur_by, prev_by, metric, total_delta) ==
    LET deltas   == compute_deltas(cur_by[dim], prev_by[dim], metric, <<dim>>)
        movement == SumSeq([n \in DOMAIN deltas |->
                               IF deltas[n].delta < 0 THEN -deltas[n].delta
                               ELSE deltas[n].delta])
        bound    == IF total_delta < 0 THEN -total_delta ELSE total_delta
        capped   == IF movement >= bound THEN ImpactCap * 10
                    ELSE RoundPct1(movement, bound)
    IN  [dimension |-> dim, variance_explained_pct |-> capped, impact_score |-> capped]

\* the entry scored from the rows of one dimension, whichever dimension it is for
DimensionImpactSharedRows(dim, cur_by, prev_by, metric, total_delta) ==
    LET shared   == CHOOSE d \in DOMAIN cur_by \cap DOMAIN prev_by : TRUE
        deltas   == compute_deltas(cur_by[shared], prev_by[shared], metric, <<shared>>)
        enriched == calculate_variance_explained(total_delta, deltas)
        max_abs_delta == MaxSeq([n \in DOMAIN enriched |-> Abs(enriched[n].delta)], 0)
        capped   == IF max_abs_delta >= Abs(total_delta) THEN ImpactCap * 10
                    ELSE RoundPct1(max_abs_delta, Abs(total_delta))
    IN  [dimension |-> dim, variance_explained_pct |-> capped, impact_score |-> capped]

\* the entry decompose_metric_change appends for one dimension
DimensionImpact(dim, cur_by, prev_by, metric, total_delta) ==
    LET deltas   == compute_deltas(cur_by[dim], prev_by[dim], metric, <<dim>>)
        enriched == calculate_variance_explained(total_delta, deltas)
        max_abs_delta == MaxSeq([n \in DOMAIN enriched |-> Abs(enriched[n].delta)], 0)
        capped   == IF max_abs_delta >= Abs(total_delta) THEN ImpactCap * 10
                    ELSE RoundPct1(max_abs_delta, Abs(total_delta))
    IN  [dimension |-> dim, variance_explained_pct |-> capped, impact_score |-> capped]

\* one dimension without rows empties the whole ranking
DimensionImpactsAllOrNothing(dims, cur_by, prev_by, metric, total_delta) ==
    LET Fetched(dim) == dim \in DOMAIN cur_by /\ dim \in DOMAIN prev_by
        entries == [n \in DOMAIN dims |->
                       DimensionImpact(dims[n], cur_by, prev_by, metric, total_delta)]
        key     == [n \in DOMAIN entries |-> entries[n].impact_score]
    IN  IF \A n \in DOMAIN dims : Fetched(dims[n])
        THEN SortDescStable(entries, key) ELSE <<>>

\* "Rank dimensions by impact" and "Sort by impact"
DimensionImpacts(dims, cur_by, prev_by, metric, total_delta) ==
    LET Fetched(dim) == dim \in DOMAIN cur_by /\ dim \in DOMAIN prev_by
        present == SelectSeq(dims, Fetched)
        entries == [n \in DOMAIN present |->
                       DimensionImpact(present[n], cur_by, prev_by, metric, total_delta)]
        key     == [n \in DOMAIN entries |-> entries[n].impact_score]
    IN  SortDescStable(entries, key)

\* one entry of "significant"
BreakdownItem(d, top_dimension) ==
    [dimension_value |-> IF top_dimension \in DOMAIN d THEN Some(d[top_dimension]) ELSE None,
     current |-> Round2(d.current), previous |-> Round2(d.previous),
     delta |-> Round2(d.delta), pct_change |-> d.pct_change,
     contribution_pct |-> RoundDiv(d.variance_pct.n * 10, d.variance_pct.d),
     impact_rank |-> d.impact_rank]

\* the threshold applied to the signed variance_pct
SignificantSigned(d, threshold_pct) ==
    d.variance_pct.n >= threshold_pct * d.variance_pct.d

\* abs(variance_pct) >= min_impact_threshold * 100, the threshold given in percent
Significant(d, threshold_pct) ==
    Abs(d.variance_pct.n) >= threshold_pct * d.variance_pct.d

\* the truncation keeps the last max_breakdown_items qualifying values
TopDimensionBreakdownTail(top, cur_by, prev_by, metric, total_delta, max_items, threshold_pct) ==
    LET deltas   == compute_deltas(cur_by[top], prev_by[top], metric, <<top>>)
        enriched == calculate_variance_explained(total_delta, deltas)
        Keep(d)  == Significant(d, threshold_pct)
        kept     == SelectSeq(enriched, Keep)
        significant == [n \in DOMAIN kept |-> BreakdownItem(kept[n], top)]
    IN  SubSeq(significant, Len(significant) + 1 - Min(max_items, Len(significant)),
               Len(significant))

\* "Get detailed breakdown for top dimension"
TopDimensionBreakdown(top, cur_by, prev_by, metric, total_delta, max_items, threshold_pct) ==
    LET deltas   == compute_deltas(cur_by[top], prev_by[top], metric, <<top>>)
        enriched == calculate_variance_explained(total_delta, deltas)
        Keep(d)  == Significant(d, threshold_pct)
        kept     == SelectSeq(enriched, Keep)
        significant == [n \in DOMAIN kept |-> BreakdownItem(kept[n], top)]
    IN  SubSeq(significant, 1, Min(max_items, Len(significant)))

\* the dimension of the entry ranked last
TopDimensionOfLast(dimension_impacts) ==
    IF dimension_impacts # <<>>
    THEN {dimension_impacts[Len(dimension_impacts)].dimension} ELSE {}

\* dimension_impacts[0]["dimension"] if dimension_impacts else None
TopDimension(dimension_impacts) ==
    IF dimension_impacts # <<>> THEN Some(dimension_impacts[1].dimension) ELSE None

\* the ok=True result built from the fetched rows; "if top_dimension:" is false
\* for None and for an empty name
DecompositionResult(metric, period, dims, t, cur_by, prev_by, max_items, threshold_pct) ==
    LET dimension_impacts == DimensionImpacts(dims, cur_by, prev_by, metric, t.total_delta)
        top_dimension == TopDimension(dimension_impacts)
    IN  [ok |-> TRUE, metric |-> metric, period |-> period,
         total_delta |-> Round2(t.total_delta),
         total_pct_change |-> t.total_pct_change,
         current_value |-> Round2(t.current_value),
         previous_value |-> Round2(t.previous_value),
         dimension_impacts |-> dimension_impacts,
         top_dimension |-> top_dimension,
         top_dimension_breakdown |->
            IF top_dimension # None /\ Val(top_dimension) # ""
            THEN TopDimensionBreakdown(Val(top_dimension), cur_by, prev_by, metric,
                                       t.total_delta, max_items, threshold_pct)
            ELSE <<>>,
         error |-> None]

-----------------------------------------------------------------------------
(* access.py *)

\* no access_policies section at all
PolicyIsOpen(cfg) ==
    DOMAIN cfg.roles = {} /\ cfg.users = <<>> /\ cfg.default_role = None

\* _roles_for_user: the first mapping of the user, else the default role, else []
RolesForUser(user_id, cfg) ==
    LET hits == {n \in DOMAIN cfg.users :
                    user_id # None /\ cfg.users[n].user_id = Val(user_id)}
    IN  IF hits # {}
        THEN cfg.users[CHOOSE n \in hits : \A h \in hits : n <= h].roles
        ELSE IF cfg.default_role # None THEN <<Val(cfg.default_role)>>
        ELSE <<>>

\* the names a list of roles grants; a role with a null list grants nothing more
AllowedNullSkipped(user_id, cfg, field) ==
    IF DOMAIN cfg.roles = {} /\ cfg.users = <<>> /\ cfg.default_role = {} THEN {}
    ELSE LET roles == RolesForUser(user_id, cfg)
             known == {n \in DOMAIN roles : roles[n] \in DOMAIN cfg.roles}
         IN  IF roles = <<>> THEN {}
             ELSE {UNION {{Val(cfg.roles[roles[n]][field])[k] :
                              k \in DOMAIN Val(cfg.roles[roles[n]][field])} :
                          n \in {m \in known : cfg.roles[roles[m]][field] # {}}}}

\* allowed_metrics (field "metrics") and allowed_dimensions (field "dimensions"):
\* None for open access, else the set of allowed names
Allowed(user_id, cfg, field) ==
    IF PolicyIsOpen(cfg) THEN None
    ELSE LET roles == RolesForUser(user_id, cfg)
             known == {n \in DOMAIN roles : roles[n] \in DOMAIN cfg.roles}
             Names(n) == LET l == Val(cfg.roles[roles[n]][field])
                         IN  {l[k] : k \in DOMAIN l}
         IN  IF roles = <<>> THEN None
             ELSE IF \E n \in known : cfg.roles[roles[n]][field] = None THEN None
             ELSE Some(UNION {Names(n) : n \in known})

allowed_metrics(user_id, cfg) == Allowed(user_id, cfg, "metrics")

allowed_dimensions(user_id, cfg) == Allowed(user_id, cfg, "dimensions")

-----------------------------------------------------------------------------
(* Inputs of a call and responses of the query collaborator *)

Metrics == {METRIC, "unknown"}

Periods == {"month", "year"}

\* core.bsl_models: the measures and the dimensions of the one semantic model
Core ==
    [measures |-> {METRIC},
     dimensions |-> <<[name |-> "region", is_time_dimension |-> FALSE],
                      [name |-> "date", is_time_dimension |-> TRUE],
                      [name |-> "product", is_time_dimension |-> FALSE]>>]

CoreTimeOnly ==
    [measures |-> {METRIC},
     dimensions |-> <<[name |-> "date", is_time_dimension |-> TRUE]>>]

Cores == {Core, CoreTimeOnly}

DimensionArgs == {None, Some(<<>>), Some(<<"product">>), Some(<<"">>)}

CallArgs ==
    [metric : Metrics, period : Periods, dimensions : DimensionArgs, core : Cores]

\* (max_breakdown_items, min_impact_threshold in percent): the defaults and a tight pair
BreakdownArgs ==
    {[max_breakdown_items |-> 10, min_impact_threshold |-> 5],
     [max_breakdown_items |-> 1, min_impact_threshold |-> 60]}

TotalVals == {0, 5, 1800}

MetricVals == {500, 2000}

DimVals == <<"x", "y">>

Raised == [raised |-> TRUE, ok |-> FALSE, data |-> <<>>]

Failed == [raised |-> FALSE, ok |-> FALSE, data |-> <<>>]

Rows(data) == [raised |-> FALSE, ok |-> TRUE, data |-> data]

\* run_warehouse_query(dimensions=[]): raises, fails, or returns zero or one row
TotalResponses(metric) ==
    {Raised, Failed, Rows(<<>>)} \cup {Rows(<<(metric :> v)>>) : v \in TotalVals}

\* the rows of the groups in gs, in the order of DimVals
RECURSIVE RowsOfGroups(_, _, _, _)
RowsOfGroups(dim, metric, gs, n) ==
    IF n > Len(DimVals) THEN {<<>>}
    ELSE LET rest == RowsOfGroups(dim, metric, gs, n + 1)
         IN  IF n \notin gs THEN rest
             ELSE {<<(dim :> DimVals[n]) @@ (metric :> v)>> \o r :
                      v \in MetricVals, r \in rest}

\* grouped rows: one row per group value that has data
GroupedRows(dim, metric) ==
    UNION {RowsOfGroups(dim, metric, gs, 1) : gs \in SUBSET (1..Len(DimVals))}

\* run_warehouse_query(dimensions=[dim])
DimResponses(dim, metric) ==
    {Raised, Failed} \cup {Rows(s) : s \in GroupedRows(dim, metric)}

\* rows given to compute_deltas: two group columns and the metric
DeltaRows ==
    {[region |-> g[1], product |-> g[2], revenue |-> v] :
        g \in {<<"a", "b|c">>, <<"a|b", "c">>, <<"a", "c">>}, v \in {0, 500}}

GroupKeyLists == {<<>>, <<"region">>, <<"region", "product">>}

\* delta records given to calculate_variance_explained
DeltaRecords == [region : {"a", "b"}, delta : {-500, 0, 500, 1500}]

\* total_delta given to calculate_variance_explained and rank_dimensions_by_impact
TotalDeltas == {-1000, 5, 1000}

\* rows given to rank_dimensions_by_impact
RankRows ==
    {[region |-> "a", product |-> "c", revenue |-> 500],
     [region |-> "a", product |-> "d", revenue |-> 2000],
     [region |-> "b", product |-> "c", revenue |-> 2000],
     [region |-> "b", product |-> "d", revenue |-> 0]}

RankDimensionLists == {<<"region", "product">>, <<"product", "region">>, <<"region", "channel">>}

\* the lists of at most MaxRows elements of S
ListsOf(S) == UNION {[1..n -> S] : n \in 0..MaxRows}

\* rows given to compute_shares: a group column and the metric, which one row
\* lacks and another carries next to a share_pct of its own
ShareRows ==
    {[p |-> g, clicks |-> v] : g \in {"A", "B"}, v \in {-500, 0, 1000, 2000, 6000}}
        \cup {[p |-> "C"], [p |-> "D", clicks |-> 1000, share_pct |-> 7]}

\* AccessConfig.roles: every configuration keeps some of these policies
RolePolicies ==
    [analyst |-> [metrics |-> Some(<<"revenue", "orders">>),
                  dimensions |-> Some(<<"date", "region">>)],
     viewer |-> [metrics |-> Some(<<"revenue">>), dimensions |-> None],
     admin |-> [metrics |-> None, dimensions |-> None],
     restricted |-> [metrics |-> Some(<<>>), dimensions |-> Some(<<"date">>)]]

UserMapping(user_id, roles) == [user_id |-> user_id, roles |-> roles]

\* AccessConfig.users
UserLists ==
    {<<>>,
     <<UserMapping("alice", <<"analyst", "viewer">>)>>,
     <<UserMapping("alice", <<"viewer", "admin">>)>>,
     <<UserMapping("alice", <<>>)>>,
     <<UserMapping("alice", <<"ghost">>)>>,
     <<UserMapping("bob", <<"analyst">>), UserMapping("alice", <<"restricted">>)>>,
     <<UserMapping("alice", <<"analyst">>), UserMapping("alice", <<"admin">>)>>}

AccessConfigs ==
    {[roles |-> [r \in names |-> RolePolicies[r]], users |-> users, default_role |-> d] :
        names \in SUBSET DOMAIN RolePolicies, users \in UserLists,
        d \in {None, Some("viewer"), Some("ghost")}}

UserIds == {None, Some("alice"), Some("carol")}

\* the reference dates given to period_date_ranges
ReferenceDates ==
    {Date(y, m, d) : y \in FirstYear..LastYear, m \in 1..12, d \in 1..31}
        \ {dt \in [year : FirstYear..LastYear, month : 1..12, day : 29..31] :
               dt.day > DaysInMonth(dt.year, dt.month)}

PeriodTokens == {"week", "month", "quarter", "year"}

\* what the call log keeps of one query
Fetch(dims, window, resp) ==
    [dimensions |-> dims, window |-> window,
     outcome |-> IF resp.raised THEN "raise" ELSE IF resp.ok THEN "ok" ELSE "fail",
     rows |-> Len(resp.data), data |-> resp.data]

-----------------------------------------------------------------------------
(* The call as a state machine: one step per query of the collaborator *)

\* no _upload_pending_files is running
NoUploader == [pc |-> "off", files |-> <<>>, had |-> <<>>]

Init ==
    /\ pc = "idle"
    /\ args = None
    /\ dimensions = <<>>
    /\ totals = <<>>
    /\ current_by_dims = <<>>
    /\ previous_by_dims = <<>>
    /\ dim_i = 0
    /\ fetches = <<>>
    /\ result = None
    /\ cli = None
    /\ calc = None
    /\ replay = None
    /\ store = [raw |-> None, writes |-> 0]
    /\ tool_calls = <<>>
    /\ uploader = NoUploader

\* the response a logged query got
Logged(f) ==
    IF f.outcome = "raise" THEN Raised
    ELSE IF f.outcome = "fail" THEN Failed ELSE Rows(f.data)

\* the responses the collaborator can give to a query: any of S, but in a
\* second call the response the same query got in the first call
Responses(S, dims, window) ==
    IF replay = None THEN S
    ELSE LET log  == Val(replay).fetches
             hits == {n \in DOMAIN log :
                         log[n].dimensions = dims /\ log[n].window = window}
         IN  IF hits = {} THEN S ELSE {Logged(log[n]) : n \in hits}

\* the locals current_value ... total_pct_change, once both total rows are in
Totals == ComputeTotals(totals["current"], totals["previous"], Val(args).metric)

\* return MetricDecompositionResult(...)
Return(r) ==
    /\ pc' = "returned"
    /\ result' = Some(r)

\* without the handler the exception leaves the call
ExceptPropagates ==
    /\ pc' = "raised"
    /\ UNCHANGED result

\* except Exception as e: the exception never leaves the call
Except ==
    Return(FailResult(Val(args).metric, Val(args).period, "exception"))

\* lines 403-455: the period, then the candidate dimensions; the failure result
\* returned there, or the candidate list
CallOutcome(a) ==
    IF ~PeriodSupported(a.period)
    THEN [result |-> Some(FailResult(a.metric, a.period, "Unsupported period")),
          dimensions |-> <<>>]
    ELSE IF a.dimensions = None /\ a.metric \notin a.core.measures
    THEN [result |-> Some(FailResult(a.metric, a.period,
                                     "Metric not found in any semantic model")),
          dimensions |-> <<>>]
    ELSE LET dims == IF a.dimensions = None THEN DiscoverDimensions(a.core)
                     ELSE Val(a.dimensions)
         IN  IF dims = <<>>
             THEN [result |-> Some(FailResult(a.metric, a.period,
                                              "No dimensions available for decomposition")),
                   dimensions |-> <<>>]
             ELSE [result |-> None, dimensions |-> dims]

Call ==
    /\ pc = "idle"
    /\ \E a \in CallArgs :
        /\ args' = Some(a)
        /\ LET o == CallOutcome(a)
           IN  IF o.result # None
               THEN Return(Val(o.result)) /\ UNCHANGED dimensions
               ELSE /\ dimensions' = o.dimensions
                    /\ pc' = "total_current"
                    /\ UNCHANGED result
    /\ UNCHANGED uploader
    /\ UNCHANGED <<totals, current_by_dims, previous_by_dims, dim_i, fetches, cli, calc,
                   replay, store, tool_calls>>

\* the same call made a second time, against the same collaborator
CallAgain ==
    /\ pc = "returned"
    /\ replay = None
    /\ cli = None
    /\ replay' = Some([args |-> Val(args), fetches |-> fetches, result |-> Val(result)])
    /\ LET a == [f \in {"metric", "period", "dimensions", "core"} |-> Val(args)[f]]
           o == CallOutcome(a)
       IN  /\ args' = Some(a)
           /\ IF o.result # None
              THEN Return(Val(o.result)) /\ dimensions' = <<>>
              ELSE /\ dimensions' = o.dimensions
                   /\ pc' = "total_current"
                   /\ result' = None
    /\ totals' = <<>>
    /\ current_by_dims' = <<>>
    /\ previous_by_dims' = <<>>
    /\ dim_i' = 0
    /\ fetches' = <<>>
    /\ UNCHANGED uploader
    /\ UNCHANGED <<cli, calc, store, tool_calls>>

\* Query 1: the ungrouped total of the current window
FetchCurrentTotal ==
    /\ pc = "total_current"
    /\ \E resp \in Responses(TotalResponses(Val(args).metric), <<>>, "current") :
        /\ fetches' = Append(fetches, Fetch(<<>>, "current", resp))
        /\ IF resp.raised
           THEN Except /\ UNCHANGED totals
           ELSE IF TotalUnavailable(resp)
           THEN /\ Return(FailResult(Val(args).metric, Val(args).period,
                                     "Failed to query current period"))
                /\ UNCHANGED totals
           ELSE /\ totals' = ("current" :> resp.data[1])
                /\ pc' = "total_previous"
                /\ UNCHANGED result
    /\ UNCHANGED uploader
    /\ UNCHANGED <<args, dimensions, current_by_dims, previous_by_dims, dim_i, cli, calc,
                   replay, store, tool_calls>>

\* Query 2: the ungrouped total of the previous window, then the total change
FetchPreviousTotal ==
    /\ pc = "total_previous"
    /\ \E resp \in Responses(TotalResponses(Val(args).metric), <<>>, "previous") :
        /\ fetches' = Append(fetches, Fetch(<<>>, "previous", resp))
        /\ IF resp.raised
           THEN Except /\ UNCHANGED <<totals, dim_i>>
           ELSE IF TotalUnavailable(resp)
           THEN /\ Return(FailResult(Val(args).metric, Val(args).period,
                                     "Failed to query previous period"))
                /\ UNCHANGED <<totals, dim_i>>
           ELSE LET t == ComputeTotals(totals["current"], resp.data[1], Val(args).metric)
                IN  /\ totals' = ("previous" :> resp.data[1]) @@ totals
                    /\ IF NoChange(t)
                       THEN /\ Return(NoChangeResult(Val(args).metric, Val(args).period, t))
                            /\ UNCHANGED dim_i
                       ELSE /\ pc' = "dim_current"
                            /\ dim_i' = 1
                            /\ UNCHANGED result
    /\ UNCHANGED uploader
    /\ UNCHANGED <<args, dimensions, current_by_dims, previous_by_dims, cli, calc, replay, store,
                   tool_calls>>

\* Query 3, current period by dimension
FetchDimCurrent ==
    /\ pc = "dim_current"
    /\ LET dim == dimensions[dim_i] IN
       \E resp \in Responses(DimResponses(dim, Val(args).metric), <<dim>>, "current") :
        /\ fetches' = Append(fetches, Fetch(<<dim>>, "current", resp))
        /\ IF resp.raised
           THEN Except /\ UNCHANGED current_by_dims
           ELSE /\ current_by_dims' = IF resp.ok /\ resp.data # <<>>
                                      THEN (dim :> resp.data) @@ current_by_dims
                                      ELSE current_by_dims
                /\ pc' = "dim_previous"
                /\ UNCHANGED result
    /\ UNCHANGED uploader
    /\ UNCHANGED <<args, dimensions, totals, previous_by_dims, dim_i, cli, calc, replay, store,
                   tool_calls>>

\* Query 3, previous period by dimension; after the last dimension the ranking follows
FetchDimPrevious ==
    /\ pc = "dim_previous"
    /\ LET dim == dimensions[dim_i] IN
       \E resp \in Responses(DimResponses(dim, Val(args).metric), <<dim>>, "previous") :
        /\ fetches' = Append(fetches, Fetch(<<dim>>, "previous", resp))
        /\ IF resp.raised
           THEN Except /\ UNCHANGED <<previous_by_dims, dim_i>>
           ELSE /\ previous_by_dims' = IF resp.ok /\ resp.data # <<>>
                                       THEN (dim :> resp.data) @@ previous_by_dims
                                       ELSE previous_by_dims
                /\ IF dim_i < Len(dimensions)
                   THEN pc' = "dim_current" /\ dim_i' = dim_i + 1
                   ELSE pc' = "rank" /\ UNCHANGED dim_i
                /\ UNCHANGED result
    /\ UNCHANGED uploader
    /\ UNCHANGED <<args, dimensions, totals, current_by_dims, cli, calc, replay, store,
                   tool_calls>>

\* max_breakdown_items and min_impact_threshold of the call: any pair, but in a
\* second call the pair of the first
Breakdowns ==
    IF replay # None /\ "max_breakdown_items" \in DOMAIN Val(replay).args
    THEN {[f \in {"max_breakdown_items", "min_impact_threshold"} |-> Val(replay).args[f]]}
    ELSE BreakdownArgs

\* lines 554-636: the ranking, the breakdown of the top dimension, the result;
\* max_breakdown_items and min_impact_threshold are first read here and join args
Assemble ==
    /\ pc = "rank"
    /\ \E b \in Breakdowns :
        /\ Return(DecompositionResult(Val(args).metric, Val(args).period, dimensions,
                                      Totals, current_by_dims, previous_by_dims,
                                      b.max_breakdown_items, b.min_impact_threshold))
        /\ args' = Some(b @@ Val(args))
    /\ UNCHANGED uploader
    /\ UNCHANGED <<dimensions, totals, current_by_dims, previous_by_dims,
                   dim_i, fetches, cli, calc, replay, store,
                   tool_calls>>

-----------------------------------------------------------------------------
(* The helpers of calculations.py called on their own *)

CallComputeDeltas ==
    /\ pc = "idle"
    /\ \E current \in ListsOf(DeltaRows), previous \in ListsOf(DeltaRows),
          group_keys \in GroupKeyLists :
        calc' = Some([fn |-> "compute_deltas", current |-> current, previous |-> previous,
                      group_keys |-> group_keys,
                      out |-> compute_deltas(current, previous, METRIC, group_keys)])
    /\ pc' = "calc"
    /\ UNCHANGED uploader
    /\ UNCHANGED <<args, dimensions, totals, current_by_dims, previous_by_dims,
                   dim_i, fetches, result, cli, replay, store,
                   tool_calls>>

CallVarianceExplained ==
    /\ pc = "idle"
    /\ \E total_delta \in TotalDeltas, dimension_deltas \in ListsOf(DeltaRecords) :
        calc' = Some([fn |-> "calculate_variance_explained", total_delta |-> total_delta,
                      dimension_deltas |-> dimension_deltas,
                      out |-> calculate_variance_explained(total_delta, dimension_deltas)])
    /\ pc' = "calc"
    /\ UNCHANGED uploader
    /\ UNCHANGED <<args, dimensions, totals, current_by_dims, previous_by_dims,
                   dim_i, fetches, result, cli, replay, store,
                   tool_calls>>

CallRankDimensions ==
    /\ pc = "idle"
    /\ \E current \in ListsOf(RankRows), previous \in ListsOf(RankRows),
          dims \in RankDimensionLists, total_delta \in TotalDeltas :
        calc' = Some([fn |-> "rank_dimensions_by_impact", current |-> current,
                      previous |-> previous, dimensions |-> dims,
                      total_delta |-> total_delta,
                      out |-> rank_dimensions_by_impact(current, previous, METRIC, dims,
                                                        total_delta)])
    /\ pc' = "calc"
    /\ UNCHANGED uploader
    /\ UNCHANGED <<args, dimensions, totals, current_by_dims, previous_by_dims,
                   dim_i, fetches, result, cli, replay, store,
                   tool_calls>>

CallComputeShares ==
    /\ pc = "idle"
    /\ \E data \in ListsOf(ShareRows) :
        calc' = Some([fn |-> "compute_shares", data |-> data,
                      out |-> compute_shares(data, "clicks")])
    /\ pc' = "calc"
    /\ UNCHANGED uploader
    /\ UNCHANGED <<args, dimensions, totals, current_by_dims, previous_by_dims,
                   dim_i, fetches, result, cli, replay, store,
                   tool_calls>>

\* access.py: allowed_metrics and allowed_dimensions for one user
CallAllowed ==
    /\ pc = "idle"
    /\ \E user_id \in UserIds, cfg \in AccessConfigs :
        calc' = Some([fn |-> "allowed", user_id |-> user_id, cfg |-> cfg,
                      metrics |-> allowed_metrics(user_id, cfg),
                      dimensions |-> allowed_dimensions(user_id, cfg)])
    /\ pc' = "calc"
    /\ UNCHANGED uploader
    /\ UNCHANGED <<args, dimensions, totals, current_by_dims, previous_by_dims,
                   dim_i, fetches, result, cli, replay, store,
                   tool_calls>>

\* period_date_ranges(period, reference): the two windows, or ValueError
CallPeriodDateRanges ==
    /\ pc = "idle"
    /\ \E period \in PeriodTokens, reference \in ReferenceDates :
        calc' = Some([fn |-> "period_date_ranges", period |-> period,
                      reference |-> reference,
                      out |-> IF PeriodSupported(period)
                              THEN Some(period_date_ranges(period, reference))
                              ELSE None])
    /\ pc' = "calc"
    /\ UNCHANGED uploader
    /\ UNCHANGED <<args, dimensions, totals, current_by_dims, previous_by_dims,
                   dim_i, fetches, result, cli, replay, store,
                   tool_calls>>

-----------------------------------------------------------------------------
(* llm/tools.py and llm/state.py: the tool calls of one agent run on one session *)

\* only a tool registered as sequential=True counts as sequential
SequentialNever(tool) == FALSE

\* @data_tools.tool(sequential=True)
Sequential(tool) == tool \in {"query_metric", "export", "generate_chart"}

\* RuntimeState.from_dict(raw)
FromDict(raw) ==
    IF raw = None
    THEN [last_query_data |-> <<>>, last_query_params |-> None, pending_files |-> <<>>]
    ELSE Val(raw)

\* the agent runs the calls one after the other, in order, when one of the tools
\* called is sequential, and concurrently otherwise
CanRun(n) ==
    (\E m \in DOMAIN tool_calls : Sequential(tool_calls[m].tool))
        => \A m \in 1..(n - 1) : tool_calls[m].pc = "done"

\* get_runtime_state(ctx): the copy of the session state a tool works on
Read(n) ==
    [tool_calls EXCEPT ![n] = [@ EXCEPT !.pc = "read", !.state = FromDict(store.raw),
                                        !.seen = store.writes]]

Done(n) == [tool_calls EXCEPT ![n] = [@ EXCEPT !.pc = "done"]]

\* save_runtime_state(ctx, state)
Save(n, state) ==
    /\ store' = [raw |-> Some(state), writes |-> store.writes + 1]
    /\ tool_calls' = [tool_calls EXCEPT ![n] = [@ EXCEPT !.pc = "done", !.saved = TRUE]]

\* a tool starts: a read-only tool runs through, query_metric checks access and
\* reads the state, export and generate_chart read it and need a last query
ToolStart ==
    /\ pc = "agent_run"
    /\ \E n \in DOMAIN tool_calls :
        /\ tool_calls[n].pc = "pending"
        /\ CanRun(n)
        /\ LET tool == tool_calls[n].tool
               state == FromDict(store.raw)
           IN  IF tool = "list_catalog" THEN tool_calls' = Done(n)
               ELSE IF tool = "query_metric"
               THEN \E allowed \in BOOLEAN :
                       tool_calls' = IF allowed THEN Read(n) ELSE Done(n)
               ELSE IF tool = "export"
               THEN tool_calls' = IF state.last_query_data = <<>> THEN Done(n) ELSE Read(n)
               ELSE tool_calls' = IF state.last_query_data = <<>>
                                     \/ state.last_query_params = None
                                  THEN Done(n) ELSE Read(n)
    /\ UNCHANGED uploader
    /\ UNCHANGED <<pc, args, dimensions, totals, current_by_dims, previous_by_dims,
                   dim_i, fetches, result, cli, calc, replay, store>>

\* query_metric, lines 303-333: the query, then the new last query is saved
QueryMetricFinish ==
    /\ pc = "agent_run"
    /\ \E n \in DOMAIN tool_calls :
        /\ tool_calls[n].pc = "read" /\ tool_calls[n].tool = "query_metric"
        /\ \E ok \in BOOLEAN, compare_period \in BOOLEAN :
            IF ~ok THEN tool_calls' = Done(n) /\ UNCHANGED store
            ELSE Save(n, [tool_calls[n].state EXCEPT
                            !.last_query_data = <<n>>,
                            !.last_query_params = IF compare_period THEN None
                                                  ELSE Some(n)])
    /\ UNCHANGED uploader
    /\ UNCHANGED <<pc, args, dimensions, totals, current_by_dims, previous_by_dims,
                   dim_i, fetches, result, cli, calc, replay>>

\* export lines 373-411 and generate_chart lines 436-477: the file is written,
\* appended to pending_files and the state is saved, unless something failed
FileToolFinish ==
    /\ pc = "agent_run"
    /\ \E n \in DOMAIN tool_calls :
        /\ tool_calls[n].pc = "read"
        /\ tool_calls[n].tool \in {"export", "generate_chart"}
        /\ \E ok \in BOOLEAN :
            IF ~ok THEN tool_calls' = Done(n) /\ UNCHANGED store
            ELSE Save(n, [tool_calls[n].state EXCEPT
                            !.pending_files = Append(@, n)])
    /\ UNCHANGED uploader
    /\ UNCHANGED <<pc, args, dimensions, totals, current_by_dims, previous_by_dims,
                   dim_i, fetches, result, cli, calc, replay>>

ToolNames == {"list_catalog", "query_metric", "export", "generate_chart"}

ToolCall(tool) ==
    [tool |-> tool, pc |-> "pending", saved |-> FALSE, seen |-> 0,
     state |-> FromDict(None)]

\* the tool calls the model asks for
Batches ==
    UNION {[1..k -> {ToolCall(t) : t \in ToolNames}] : k \in 1..MaxCalls}

\* the session before the run: none, or one that holds a query result
StoredSessions ==
    {None,
     Some([last_query_data |-> <<0>>, last_query_params |-> Some(0),
           pending_files |-> <<>>])}

InitAgentRun ==
    /\ pc = "agent_run"
    /\ args = None
    /\ dimensions = <<>>
    /\ totals = <<>>
    /\ current_by_dims = <<>>
    /\ previous_by_dims = <<>>
    /\ dim_i = 0
    /\ fetches = <<>>
    /\ result = None
    /\ cli = None
    /\ calc = None
    /\ replay = None
    /\ \E raw \in StoredSessions : store = [raw |-> raw, writes |-> 0]
    /\ tool_calls \in Batches
    /\ uploader = NoUploader

NextAgentRun ==
    \/ ToolStart
    \/ QueryMetricFinish
    \/ FileToolFinish

SpecAgentRun == InitAgentRun /\ [][NextAgentRun]_vars

-----------------------------------------------------------------------------
(* app/slack.py: _upload_pending_files of one request, next to the tool calls
   of another request on the same session. The state a tool or the uploader
   reads is a copy, as RedisSessionStore returns it; MemorySessionStore hands
   out the stored lists themselves, but append and save in the tools, and the
   read and list(files) in the uploader, follow each other directly. *)

\* state.py 110-114
get_pending_files_for_session(raw) == FromDict(raw).pending_files

\* state.py 117-124: what the store holds for the session afterwards
clear_pending_files_for_session(raw) ==
    IF raw # None
    THEN Some([FromDict(raw) EXCEPT !.pending_files = <<>>])
    ELSE raw

\* files = get_pending_files_for_session(session_id); if not files: return
UploaderGet ==
    /\ pc = "agent_run" /\ uploader.pc = "start"
    /\ LET files == get_pending_files_for_session(store.raw)
       IN  uploader' = IF files = <<>> THEN [uploader EXCEPT !.pc = "done"]
                       ELSE [uploader EXCEPT !.pc = "uploading", !.files = files]
    /\ UNCHANGED <<pc, args, dimensions, totals, current_by_dims, previous_by_dims,
                   dim_i, fetches, result, cli, calc, replay, store, tool_calls>>

\* for f in list(files): client.files_upload_v2(...); a missing file or a
\* failed upload is logged and the loop goes on
UploaderUpload ==
    /\ pc = "agent_run" /\ uploader.pc = "uploading"
    /\ uploader' = [uploader EXCEPT !.pc = "clear"]
    /\ UNCHANGED <<pc, args, dimensions, totals, current_by_dims, previous_by_dims,
                   dim_i, fetches, result, cli, calc, replay, store, tool_calls>>

\* clear_pending_files_for_session(session_id)
UploaderClear ==
    /\ pc = "agent_run" /\ uploader.pc = "clear"
    /\ store' = IF store.raw # None
                THEN [raw |-> clear_pending_files_for_session(store.raw),
                      writes |-> store.writes + 1]
                ELSE store
    /\ uploader' = [uploader EXCEPT !.pc = "done"]
    /\ UNCHANGED <<pc, args, dimensions, totals, current_by_dims, previous_by_dims,
                   dim_i, fetches, result, cli, calc, replay, tool_calls>>

\* the session when the uploader starts: none, one with a query result, or one
\* that also holds file 0, exported by the uploader's own request
UploadSessions ==
    StoredSessions
        \cup {Some([last_query_data |-> <<0>>, last_query_params |-> Some(0),
                    pending_files |-> <<0>>])}

InitUpload ==
    /\ pc = "agent_run"
    /\ args = None
    /\ dimensions = <<>>
    /\ totals = <<>>
    /\ current_by_dims = <<>>
    /\ previous_by_dims = <<>>
    /\ dim_i = 0
    /\ fetches = <<>>
    /\ result = None
    /\ cli = None
    /\ calc = None
    /\ replay = None
    /\ \E raw \in UploadSessions :
          /\ store = [raw |-> raw, writes |-> 0]
          /\ uploader = [pc |-> "start", files |-> <<>>,
                         had |-> get_pending_files_for_session(raw)]
    /\ tool_calls \in Batches

NextUpload ==
    \/ ToolStart
    \/ QueryMetricFinish
    \/ FileToolFinish
    \/ UploaderGet
    \/ UploaderUpload
    \/ UploaderClear

SpecUpload == InitUpload /\ [][NextUpload]_vars

\* cli.py decompose: the exit code after the result is printed
ExitCode(r, json_out) ==
    IF json_out THEN 0
    ELSE IF ~r.ok THEN 1
    ELSE 0

\* lines 866-941 of cli.py: --json or human-readable output, then exit
CliOutput ==
    /\ pc = "returned"
    /\ replay = None
    /\ Val(args).dimensions = None
    /\ \E json_out \in BOOLEAN :
        cli' = Some([json_out |-> json_out, exit_code |-> ExitCode(Val(result), json_out)])
    /\ pc' = "exited"
    /\ UNCHANGED uploader
    /\ UNCHANGED <<args, dimensions, totals, current_by_dims, previous_by_dims,
                   dim_i, fetches, result, calc, replay, store,
                   tool_calls>>

Next ==
    \/ Call
    \/ FetchCurrentTotal
    \/ FetchPreviousTotal
    \/ FetchDimCurrent
    \/ FetchDimPrevious
    \/ Assemble
    \/ CliOutput
    \/ CallComputeDeltas
    \/ CallVarianceExplained
    \/ CallRankDimensions
    \/ CallPeriodDateRanges
    \/ CallComputeShares
    \/ CallAllowed

Spec == Init /\ [][Next]_vars

\* two calls of decompose_metric_change in a row
NextTwice ==
    \/ Call
    \/ FetchCurrentTotal
    \/ FetchPreviousTotal
    \/ FetchDimCurrent
    \/ FetchDimPrevious
    \/ Assemble
    \/ CallAgain

SpecTwice == Init /\ [][NextTwice]_vars

-----------------------------------------------------------------------------
(* Properties of decompose_metric_change and of the decompose command *)

Terminal == pc \in {"returned", "exited"}

Res == Val(result)

BothTotalsFetched == DOMAIN totals = {"current", "previous"}

\* the position in the call log of the fetch of dimension number n
CurFetch(n) == 2 * n + 1
PrevFetch(n) == 2 * n + 2

\* every query of the call was issued and none raised
AllFetched ==
    /\ Len(fetches) = 2 + 2 * Len(dimensions)
    /\ \A n \in DOMAIN fetches : fetches[n].outcome # "raise"

ImpactDimensions == {Res.dimension_impacts[n].dimension : n \in DOMAIN Res.dimension_impacts}

\* C1: when both total fetches return a row and the totals differ by less than
\* 0.01, the call has returned ok=true without error, total_pct_change 0.0, no
\* dimension impacts, no top dimension and no breakdown.
C1_NoChangeShortCircuit ==
    (BothTotalsFetched
       /\ Abs(SafeFloat(totals["current"], Val(args).metric)
              - SafeFloat(totals["previous"], Val(args).metric)) < Epsilon)
    => /\ Terminal
       /\ Res.ok /\ Res.error = None
       /\ Res.total_pct_change = Some(0)
       /\ Res.dimension_impacts = <<>>
       /\ Res.top_dimension = None
       /\ Res.top_dimension_breakdown = <<>>

\* the 0.005 case: the totals differ, by less than the epsilon
C1_Witness ==
    /\ pc = "returned" /\ BothTotalsFetched
    /\ Totals.total_delta # 0 /\ Abs(Totals.total_delta) < Epsilon
    /\ Res.ok /\ Res.total_pct_change = Some(0)

\* the step of the call that is due in a state before the return can be taken
\* (the ranking step needs only the two totals, which it then has)
CanStep ==
    /\ pc = "idle" => ENABLED Call
    /\ pc = "total_current" => ENABLED FetchCurrentTotal
    /\ pc = "total_previous" => ENABLED FetchPreviousTotal
    /\ pc = "dim_current" => ENABLED FetchDimCurrent
    /\ pc = "dim_previous" => ENABLED FetchDimPrevious
    /\ pc = "rank" => BothTotalsFetched /\ dimensions # <<>>

\* C2: the call never gets stuck and never lets an exception out: the call is
\* always at one of its steps or has returned, the step that is due can be
\* taken, the number of queries is bounded by 2 + 2 * (number of dimensions),
\* a raising collaborator ends the call with a returned result, and every
\* returned result has ok=false exactly when it carries an error message.
C2_AlwaysReturnsResult ==
    /\ pc \in {"idle", "total_current", "total_previous", "dim_current",
               "dim_previous", "rank", "returned", "exited", "calc"}
    /\ pc \notin {"returned", "exited", "calc"} => (result = None /\ CanStep)
    /\ Len(fetches) <= 2 + 2 * Len(dimensions)
    /\ (\E n \in DOMAIN fetches : fetches[n].outcome = "raise") => Terminal
    /\ Terminal => /\ result # None
                   /\ Res.ok <=> Res.error = None

\* a grouped fetch raised and the caller got ok=false with a message
C2_Witness ==
    /\ pc = "returned"
    /\ \E n \in DOMAIN fetches :
          fetches[n].outcome = "raise" /\ fetches[n].dimensions # <<>>
    /\ ~Res.ok /\ Res.error # None

\* C3 as stated: after a failed grouped fetch the call still returns ok=true,
\* the failed dimension is absent and every dimension whose two fetches
\* succeeded is in dimension_impacts.
C3_FailedFetchOnlyDropsItsDimension ==
    (Terminal /\ AllFetched
       /\ \E n \in DOMAIN fetches : fetches[n].dimensions # <<>> /\ fetches[n].outcome = "fail")
    => /\ Res.ok
       /\ \A n \in DOMAIN dimensions :
            /\ (fetches[CurFetch(n)].outcome = "fail" \/ fetches[PrevFetch(n)].outcome = "fail")
                  => dimensions[n] \notin ImpactDimensions
            /\ (fetches[CurFetch(n)].outcome = "ok" /\ fetches[PrevFetch(n)].outcome = "ok")
                  => dimensions[n] \in ImpactDimensions

\* C3 amended: ... every dimension whose two fetches succeeded with at least
\* one row each is in dimension_impacts.
C3_FailedFetchKeepsDimensionsWithRows ==
    (Terminal /\ AllFetched
       /\ \E n \in DOMAIN fetches : fetches[n].dimensions # <<>> /\ fetches[n].outcome = "fail")
    => /\ Res.ok
       /\ \A n \in DOMAIN dimensions :
            /\ (fetches[CurFetch(n)].outcome = "fail" \/ fetches[PrevFetch(n)].outcome = "fail")
                  => dimensions[n] \notin ImpactDimensions
            /\ (fetches[CurFetch(n)].outcome = "ok" /\ fetches[CurFetch(n)].rows > 0
                  /\ fetches[PrevFetch(n)].outcome = "ok" /\ fetches[PrevFetch(n)].rows > 0)
                  => dimensions[n] \in ImpactDimensions

\* one dimension failed, another one was fetched with rows and is ranked
C3_Witness ==
    /\ pc = "returned" /\ AllFetched /\ Res.ok
    /\ \E n, m \in DOMAIN dimensions :
          /\ n # m
          /\ fetches[PrevFetch(n)].outcome = "fail"
          /\ fetches[CurFetch(m)].rows > 0 /\ fetches[PrevFetch(m)].rows > 0
          /\ ImpactDimensions = {dimensions[m]}

\* a total fetch that failed or came back without rows
NoTotal(f) == f.dimensions = <<>> /\ (f.outcome = "fail" \/ (f.outcome = "ok" /\ f.rows = 0))

\* C4: when a total fetch fails or returns no row the call has returned
\* ok=false with an error message and the call log holds no grouped fetch.
C4_NoTotalNoDimensionFetch ==
    (\E n \in DOMAIN fetches : NoTotal(fetches[n]))
    => /\ Terminal
       /\ ~Res.ok /\ Res.error # None
       /\ \A n \in DOMAIN fetches : fetches[n].dimensions = <<>>

\* the previous window's total came back ok with zero rows
C4_Witness ==
    /\ pc = "returned" /\ Len(fetches) = 2
    /\ fetches[1].outcome = "ok" /\ fetches[1].rows = 1
    /\ fetches[2].outcome = "ok" /\ fetches[2].rows = 0
    /\ ~Res.ok /\ Res.error = Some("Failed to query previous period")

C6_ExitCodeFollowsOk ==
    cli # None => Val(cli).exit_code = (IF Res.ok THEN 0 ELSE 1)

\* the call log starts with the two total fetches, each answered with a row
TotalsCameFirst ==
    /\ Len(fetches) >= 2
    /\ \A n \in 1..2 :
          fetches[n].dimensions = <<>> /\ fetches[n].outcome = "ok" /\ fetches[n].rows > 0
    /\ fetches[1].window = "current" /\ fetches[2].window = "previous"

\* C16: a per-dimension fetch is in the call log only after the two total
\* fetches, both answered, and only when the totals differ by 0.01 or more; when
\* they differ by less the call log holds the two total fetches and nothing else.
C16_DimensionFetchesAfterShortCircuit ==
    /\ \A n \in DOMAIN fetches :
          fetches[n].dimensions # <<>>
              => /\ n > 2 /\ TotalsCameFirst /\ BothTotalsFetched
                 /\ Abs(Totals.total_delta) >= Epsilon
    /\ (BothTotalsFetched /\ Abs(Totals.total_delta) < Epsilon)
          => /\ Len(fetches) = 2 /\ TotalsCameFirst
             /\ pc \in {"returned", "exited"}

\* a short-circuited call with two candidate dimensions: two fetches in all
C16_Witness ==
    /\ pc = "returned" /\ Len(dimensions) = 2
    /\ BothTotalsFetched /\ Abs(Totals.total_delta) < Epsilon
    /\ Len(fetches) = 2 /\ Res.ok

\* what rank_dimensions_by_impact returns for the rows fetched for dim
RankerEntry(dim) ==
    rank_dimensions_by_impact(current_by_dims[dim], previous_by_dims[dim],
                              Val(args).metric, <<dim>>, Totals.total_delta)[1]

\* the deltas of the values of dim, from the rows fetched for it
DeltasOf(dim) ==
    compute_deltas(current_by_dims[dim], previous_by_dims[dim], Val(args).metric, <<dim>>)

\* the largest |delta| among the values of dim
LargestMove(dim) ==
    CHOOSE m \in {Abs(DeltasOf(dim)[n].delta) : n \in DOMAIN DeltasOf(dim)} :
        \A n \in DOMAIN DeltasOf(dim) : Abs(DeltasOf(dim)[n].delta) <= m

HasImpacts == pc = "returned" /\ Res.ok /\ Res.dimension_impacts # <<>>

C18_TopDimensionIsFirstImpact ==
    result # None =>
        /\ Res.dimension_impacts # <<>>
              => Res.top_dimension = Some(Res.dimension_impacts[1].dimension)
        /\ Res.dimension_impacts = <<>> => Res.top_dimension = None
        /\ Res.top_dimension_breakdown # <<>> => Res.top_dimension # None

\* the second candidate is ranked first and is the one that is broken down
C18_Witness ==
    /\ pc = "returned" /\ Res.ok /\ Len(Res.dimension_impacts) = 2
    /\ Res.dimension_impacts[1].impact_score > Res.dimension_impacts[2].impact_score
    /\ Res.top_dimension = Some(dimensions[2])
    /\ Res.top_dimension_breakdown # <<>>
    /\ \A n \in DOMAIN Res.top_dimension_breakdown :
          Res.top_dimension_breakdown[n].dimension_value # None

\* a result whose top dimension is broken down ("if top_dimension:" holds)
HasBreakdown ==
    /\ pc = "returned" /\ Res.ok
    /\ Res.top_dimension # None /\ Val(Res.top_dimension) # ""

\* the impact-ranked records of the top dimension, as indices of TopRanked
TopRanked == calculate_variance_explained(Totals.total_delta, DeltasOf(Val(Res.top_dimension)))

\* |delta / total_delta * 100| >= min_impact_threshold * 100
AtThreshold(delta) ==
    Abs(delta) * 100 >= Val(args).min_impact_threshold * Abs(Totals.total_delta)

\* the ranks of the records of the top dimension that reach the threshold
Qualifying == {k \in DOMAIN TopRanked : AtThreshold(TopRanked[k].delta)}

\* C19: the breakdown holds the values of the top dimension whose |variance_pct|
\* reaches min_impact_threshold * 100, in impact-rank order, cut to the first
\* max_breakdown_items: entry number k is the k-th qualifying value, there are
\* min(max_breakdown_items, number of qualifying values) entries and none is
\* below the threshold.
C19_BreakdownFilteredAndTruncated ==
    HasBreakdown =>
        LET breakdown == Res.top_dimension_breakdown
        IN  /\ Len(breakdown) = Min(Val(args).max_breakdown_items, Cardinality(Qualifying))
            /\ Len(breakdown) <= Val(args).max_breakdown_items
            /\ \A k \in DOMAIN breakdown :
                  LET r == breakdown[k].impact_rank
                  IN  /\ r \in Qualifying
                      /\ Cardinality({q \in Qualifying : q < r}) = k - 1
                      /\ breakdown[k].dimension_value
                            = Some(TopRanked[r][Val(Res.top_dimension)])
                      /\ AtThreshold(breakdown[k].delta)

\* two values reach the threshold and max_breakdown_items is 1
C19_Witness ==
    /\ HasBreakdown
    /\ Val(args).max_breakdown_items = 1 /\ Val(args).min_impact_threshold = 60
    /\ Cardinality(Qualifying) = 2
    /\ Len(Res.top_dimension_breakdown) = 1
    /\ Res.top_dimension_breakdown[1].impact_rank = 1

\* C27: the impact_rank values of top_dimension_breakdown are 1, 2, ..., k in
\* list order: the threshold filter and the truncation keep a prefix of the
\* impact ranking of the top dimension's values.
C27_BreakdownRanksArePrefix ==
    (pc = "returned" /\ result # None /\ Res.ok)
    => /\ \A k \in DOMAIN Res.top_dimension_breakdown :
             Res.top_dimension_breakdown[k].impact_rank = k
       /\ Res.top_dimension_breakdown # <<>>
          => Len(Res.top_dimension_breakdown) <= Len(TopRanked)

\* two ranked values, the second under the default threshold: the filter drops
\* it and the breakdown is the first
C27_Witness ==
    /\ HasBreakdown
    /\ Val(args).max_breakdown_items = 10 /\ Val(args).min_impact_threshold = 5
    /\ Len(TopRanked) = 2
    /\ Len(Res.top_dimension_breakdown) = 1
    /\ Res.top_dimension_breakdown[1].impact_rank = 1

-----------------------------------------------------------------------------
(* Properties of the helpers of calculations.py *)

Calc == Val(calc)

CalcIs(fn) == calc # None /\ Calc.fn = fn

\* some previous row carries the joined group key of row
HasPrevious(row, previous, group_keys) ==
    \E j \in DOMAIN previous : RowKey(previous[j], group_keys) = RowKey(row, group_keys)

SumOf(s, f) == SumSeq([n \in DOMAIN s |-> s[n][f]])

\* the records decompose_metric_change hands to calculate_variance_explained for the
\* top dimension, and what it gets back
TopDeltas ==
    compute_deltas(current_by_dims[Val(Res.top_dimension)],
                   previous_by_dims[Val(Res.top_dimension)],
                   Val(args).metric, <<Val(Res.top_dimension)>>)

TopEnriched == calculate_variance_explained(Totals.total_delta, TopDeltas)

HasTopDimension == Terminal /\ Res.ok /\ Res.top_dimension # None

\* C8 as stated: for |total_delta| >= 0.01 the variance_explained values of the
\* records returned sum to total_delta, also for the top dimension's records in
\* decompose_metric_change.
C8_ContributionsSumToTotalDelta ==
    /\ (CalcIs("calculate_variance_explained") /\ Abs(Calc.total_delta) >= Epsilon
          /\ Calc.out # <<>>)
          => SumOf(Calc.out, "variance_explained") = Calc.total_delta
    /\ HasTopDimension => SumOf(TopEnriched, "variance_explained") = Totals.total_delta

\* C8 amended: for |total_delta| >= 0.01 the variance_explained values sum to the
\* sum of the deltas of the records given (each is its record's delta), so they
\* sum to total_delta exactly when the given deltas do; the same holds for the
\* top dimension's records in decompose_metric_change.
C8_ContributionsSumToDeltas ==
    /\ (CalcIs("calculate_variance_explained") /\ Abs(Calc.total_delta) >= Epsilon)
          => /\ SumOf(Calc.out, "variance_explained") = SumOf(Calc.dimension_deltas, "delta")
             /\ SumOf(Calc.out, "variance_explained") = Calc.total_delta
                   <=> SumOf(Calc.dimension_deltas, "delta") = Calc.total_delta
    /\ HasTopDimension
          => /\ SumOf(TopEnriched, "variance_explained") = SumOf(TopDeltas, "delta")
             /\ SumOf(TopEnriched, "variance_explained") = Totals.total_delta
                   <=> SumOf(TopDeltas, "delta") = Totals.total_delta

\* offsetting deltas that do not add up to total_delta
C8_Witness ==
    /\ CalcIs("calculate_variance_explained")
    /\ Calc.total_delta = 1000
    /\ Len(Calc.out) = 2
    /\ \E n \in DOMAIN Calc.out : Calc.out[n].variance_explained < 0
    /\ SumOf(Calc.out, "variance_explained") = 0

\* C9: every impact_score lies in [0, 100], in the entries of
\* rank_dimensions_by_impact and in dimension_impacts of every result.
C9_ImpactScoreInRange ==
    /\ CalcIs("rank_dimensions_by_impact")
          => \A n \in DOMAIN Calc.out :
                Calc.out[n].impact_score >= 0 /\ Calc.out[n].impact_score <= 1000
    /\ result # None
          => \A n \in DOMAIN Res.dimension_impacts :
                /\ Res.dimension_impacts[n].impact_score >= 0
                /\ Res.dimension_impacts[n].impact_score <= 1000

\* a dimension whose movement is more than the total change: the cap applies
C9_Witness ==
    /\ CalcIs("rank_dimensions_by_impact")
    /\ \E n \in DOMAIN Calc.out :
          /\ Calc.out[n].variance_explained_pct > 1000
          /\ Calc.out[n].impact_score = 1000

\* the index of dimension d in the candidate list dims
IndexIn(dims, d) == CHOOSE n \in DOMAIN dims : dims[n] = d

\* entries by impact_score, non-increasing; equal scores in the order of dims
RankedLike(entries, dims) ==
    \A p, q \in DOMAIN entries :
        p < q => /\ entries[p].impact_score >= entries[q].impact_score
                 /\ entries[p].impact_score = entries[q].impact_score
                       => IndexIn(dims, entries[p].dimension)
                            < IndexIn(dims, entries[q].dimension)

\* C10: the dimension entries are sorted by impact_score, non-increasing, and
\* entries of equal score keep the order of the candidate list, in the output
\* of rank_dimensions_by_impact and in dimension_impacts of every result.
C10_SortedByImpactStable ==
    /\ CalcIs("rank_dimensions_by_impact") => RankedLike(Calc.out, Calc.dimensions)
    /\ result # None => RankedLike(Res.dimension_impacts, dimensions)

\* the second candidate has the higher score and is ranked first
C10_Witness ==
    /\ pc = "returned" /\ Res.ok /\ Len(Res.dimension_impacts) = 2
    /\ Res.dimension_impacts[1].dimension = dimensions[2]
    /\ Res.dimension_impacts[1].impact_score > Res.dimension_impacts[2].impact_score
    /\ Res.dimension_impacts[2].impact_score > 0

\* the values of the group keys of a row, as a tuple
GroupTuple(row, group_keys) == [i \in DOMAIN group_keys |-> row[group_keys[i]]]

\* C22: compute_deltas returns one record per row of current, record n for
\* row n with that row's group values and metric value; no record carries the
\* group values of a row of previous that no row of current has.
C22_OneRecordPerCurrentRow ==
    CalcIs("compute_deltas") =>
        /\ Len(Calc.out) = Len(Calc.current)
        /\ \A n \in DOMAIN Calc.out :
              /\ GroupTuple(Calc.out[n], Calc.group_keys)
                    = GroupTuple(Calc.current[n], Calc.group_keys)
              /\ Calc.out[n].current = Calc.current[n].revenue
        /\ \A j \in DOMAIN Calc.previous :
              (\A n \in DOMAIN Calc.current :
                    GroupTuple(Calc.current[n], Calc.group_keys)
                      # GroupTuple(Calc.previous[j], Calc.group_keys))
              => \A n \in DOMAIN Calc.out :
                    GroupTuple(Calc.out[n], Calc.group_keys)
                      # GroupTuple(Calc.previous[j], Calc.group_keys)

\* previous has two groups, current one of them and twice: two records, both for it
C22_Witness ==
    /\ CalcIs("compute_deltas") /\ Calc.group_keys = <<"region">>
    /\ Len(Calc.current) = 2 /\ Len(Calc.previous) = 2
    /\ Calc.current[1].region = "a" /\ Calc.current[2].region = "a"
    /\ Calc.previous[1].region = "a" /\ Calc.previous[2].region = "a|b"
    /\ Len(Calc.out) = 2
    /\ Calc.out[1].region = "a" /\ Calc.out[2].region = "a"

\* the rows of previous that agree with row on the value of every group key
SameGroup(row, previous, group_keys) ==
    {j \in DOMAIN previous :
        GroupTuple(previous[j], group_keys) = GroupTuple(row, group_keys)}

\* C28: compute_deltas takes the previous value of a current row from a
\* previous row only when the two rows agree on the value of every group key:
\* the value is that of the last such row of previous, and 0.0 when there is
\* none, so rows with different group-key tuples never share a previous row.
C28_MatchOnEqualGroupTuples ==
    CalcIs("compute_deltas") =>
        \A n \in DOMAIN Calc.out :
            LET hits == SameGroup(Calc.current[n], Calc.previous, Calc.group_keys)
            IN  Calc.out[n].previous
                  = IF hits = {} THEN 0
                    ELSE Calc.previous[CHOOSE j \in hits : \A h \in hits : h <= j].revenue

\* the one-to-one maps from the positions of the output to those of the input
Bijections(n) == {f \in [1..n -> 1..n] : \A p, q \in 1..n : f[p] = f[q] => p = q}

\* the fields of a record that the input record had
InputFields(rec, fields) == [f \in fields |-> rec[f]]

\* C21: for |total_delta| >= 0.01 calculate_variance_explained returns the input
\* records, each once, by |variance_explained| non-increasing, records of equal
\* |variance_explained| in input order, with impact_rank 1..N in output order;
\* for |total_delta| < 0.01 it returns them in input order with
\* variance_explained 0.0, variance_pct 0.0 and impact_rank 0.
C21_RankedByMagnitudeStable ==
    CalcIs("calculate_variance_explained") =>
        LET in  == Calc.dimension_deltas
            out == Calc.out
        IN  /\ Len(out) = Len(in)
            /\ Abs(Calc.total_delta) >= Epsilon =>
                  \E from \in Bijections(Len(in)) :
                      \A p \in DOMAIN out :
                          /\ InputFields(out[p], DOMAIN in[from[p]]) = in[from[p]]
                          /\ out[p].impact_rank = p
                          /\ \A q \in DOMAIN out :
                                p < q =>
                                  /\ Abs(out[p].variance_explained)
                                        >= Abs(out[q].variance_explained)
                                  /\ Abs(out[p].variance_explained)
                                        = Abs(out[q].variance_explained)
                                        => from[p] < from[q]
            /\ Abs(Calc.total_delta) < Epsilon =>
                  \A n \in DOMAIN out :
                      /\ InputFields(out[n], DOMAIN in[n]) = in[n]
                      /\ out[n].variance_explained = 0
                      /\ out[n].variance_pct.n = 0
                      /\ out[n].impact_rank = 0

\* a decline of 0.5 listed before a rise of 0.5: equal magnitude, input order kept
C21_Witness ==
    /\ CalcIs("calculate_variance_explained") /\ Calc.total_delta = 1000
    /\ Len(Calc.out) = 2
    /\ Calc.dimension_deltas[1] = [region |-> "a", delta |-> -500]
    /\ Calc.dimension_deltas[2] = [region |-> "b", delta |-> 500]
    /\ Calc.out[1].region = "a" /\ Calc.out[1].impact_rank = 1
    /\ Calc.out[2].region = "b" /\ Calc.out[2].impact_rank = 2

\* the fraction pct is delta / total_delta * 100
IsPctOf(pct, delta, total_delta) ==
    pct.d > 0 /\ pct.n * total_delta = delta * 100 * pct.d

\* C20: for |total_delta| >= 0.01 every record of calculate_variance_explained
\* has variance_pct = delta / total_delta * 100, negative when delta and
\* total_delta have opposite signs and not clamped; contribution_pct of a
\* breakdown entry is that value of its record, at the one decimal the field carries.
C20_ContributionIsSignedVariancePct ==
    /\ (CalcIs("calculate_variance_explained") /\ Abs(Calc.total_delta) >= Epsilon)
          => \A n \in DOMAIN Calc.out :
                /\ IsPctOf(Calc.out[n].variance_pct, Calc.out[n].delta, Calc.total_delta)
                /\ Calc.out[n].variance_pct.n < 0
                      <=> Calc.out[n].delta * Calc.total_delta < 0
    /\ HasBreakdown
          => \A k \in DOMAIN Res.top_dimension_breakdown :
                LET entry == Res.top_dimension_breakdown[k]
                    rec   == TopRanked[entry.impact_rank]
                IN  /\ IsPctOf(rec.variance_pct, rec.delta, Totals.total_delta)
                    /\ entry.contribution_pct
                          = RoundDiv(rec.variance_pct.n * 10, rec.variance_pct.d)
                    /\ entry.contribution_pct < 0 <=> rec.delta * Totals.total_delta < 0

\* the total rose: one value contributes 111.1 % and another -83.3 %
C20_Witness ==
    /\ HasBreakdown /\ Totals.total_delta = 1800
    /\ Len(Res.top_dimension_breakdown) = 2
    /\ Res.top_dimension_breakdown[1].contribution_pct = 1111
    /\ Res.top_dimension_breakdown[2].contribution_pct = -833

-----------------------------------------------------------------------------
(* Properties of period_date_ranges *)

\* date.fromisoformat(s).toordinal()
IsoOrdinal(iso) == ToOrdinal(Date(iso[1], iso[2], iso[3]))

\* the number of days from the start to the end of a window
WindowDays(window) == IsoOrdinal(window[2]) - IsoOrdinal(window[1])

Ranges == Val(Calc.out)

\* C11: for every reference date and each of week, month and quarter the
\* current and the previous window span the same number of days.
C11_WindowsSpanSameDays ==
    (CalcIs("period_date_ranges") /\ Calc.period \in {"week", "month", "quarter"})
    => /\ Calc.out # None
       /\ WindowDays(Ranges[1]) = WindowDays(Ranges[2])
       /\ WindowDays(Ranges[1]) >= 0

\* 31 March: the previous window starts on 1 February and is 30 days long too
C11_Witness ==
    /\ CalcIs("period_date_ranges") /\ Calc.period = "month"
    /\ Calc.reference = Date(LastYear, 3, 31)
    /\ Ranges[2][1] = <<LastYear, 2, 1>>
    /\ WindowDays(Ranges[1]) = 30 /\ WindowDays(Ranges[2]) = 30

\* the month in which the window of a period that holds month m starts
StartMonth(period, m) ==
    IF period = "month" THEN m
    ELSE CHOOSE q \in {1, 4, 7, 10} : q <= m /\ m <= q + 2

\* the number of months in a period
MonthsIn(period) == IF period = "month" THEN 1 ELSE 3

\* C23: for month and quarter the current window runs from the first day of
\* the reference date's month or quarter (starting in month 1, 4, 7 or 10) to
\* the reference date; the previous window starts on the first day of the
\* month or quarter before, in the prior year when the reference is in
\* January or the first quarter; month with reference 2024-03-15 gives
\* 2024-03-01..2024-03-15 and 2024-02-01..2024-02-15.
C23_WindowStarts ==
    (CalcIs("period_date_ranges") /\ Calc.period \in {"month", "quarter"})
    => LET ref   == Calc.reference
           start == StartMonth(Calc.period, ref.month)
           step  == MonthsIn(Calc.period)
       IN  /\ Calc.out # None
           /\ Ranges[1][1] = <<ref.year, start, 1>>
           /\ Ranges[1][2] = <<ref.year, ref.month, ref.day>>
           /\ Ranges[2][1] = IF start - step >= 1
                              THEN <<ref.year, start - step, 1>>
                              ELSE <<ref.year - 1, start - step + 12, 1>>
           /\ (Calc.period = "month" /\ ref = Date(2024, 3, 15))
              => Ranges = << << <<2024, 3, 1>>, <<2024, 3, 15>> >>,
                            << <<2024, 2, 1>>, <<2024, 2, 15>> >> >>

\* the example of the specification
C23_Witness ==
    /\ CalcIs("period_date_ranges") /\ Calc.period = "month"
    /\ Calc.reference = Date(2024, 3, 15)
    /\ Ranges = << << <<2024, 3, 1>>, <<2024, 3, 15>> >>,
                   << <<2024, 2, 1>>, <<2024, 2, 15>> >> >>

-----------------------------------------------------------------------------
(* The per-dimension fetches and the ranking *)

\* a call has returned a result with ok = true
OkResult == pc = "returned" /\ result # None /\ Res.ok

\* the fetched totals moved by less than Epsilon: the call returned early
ShortCircuited == Abs(Totals.total_delta) < Epsilon

\* the number of the candidate dimension that fetch number n of the call log is for
DimOfFetch(n) == (n - 1) \div 2

\* fetch number n answered ok with at least one row
GotRows(n) == fetches[n].outcome = "ok" /\ fetches[n].rows > 0

\* the entry computed from the two logged responses of dimension number i alone
OwnEntry(i) ==
    DimensionImpact(dimensions[i],
                    (dimensions[i] :> fetches[CurFetch(i)].data),
                    (dimensions[i] :> fetches[PrevFetch(i)].data),
                    Val(args).metric, Totals.total_delta)

\* C29: in a call that passes the short-circuit the grouped fetches are
\* issued two per candidate dimension, current then previous, in list order;
\* the ranking starts only when all of them have returned; a dimension is in
\* dimension_impacts if and only if both of its fetches returned ok with at
\* least one row, and its entry is computed from its own two responses and
\* total_delta alone.
C29_TwoFetchesPerDimensionThenRank ==
    /\ \A n \in DOMAIN fetches :
          n > 2 => /\ DimOfFetch(n) \in DOMAIN dimensions
                   /\ fetches[n].dimensions = <<dimensions[DimOfFetch(n)]>>
                   /\ fetches[n].window = IF n % 2 = 1 THEN "current" ELSE "previous"
    /\ (pc = "rank" \/ (OkResult /\ ~ShortCircuited))
          => /\ AllFetched
             /\ \A i \in DOMAIN dimensions :
                   fetches[CurFetch(i)].window = "current"
                     /\ fetches[PrevFetch(i)].window = "previous"
    /\ (OkResult /\ ~ShortCircuited)
          => /\ \A i \in DOMAIN dimensions :
                   dimensions[i] \in ImpactDimensions
                      <=> (GotRows(CurFetch(i)) /\ GotRows(PrevFetch(i)))
             /\ \A k \in DOMAIN Res.dimension_impacts :
                   \E i \in DOMAIN dimensions :
                      /\ dimensions[i] = Res.dimension_impacts[k].dimension
                      /\ Res.dimension_impacts[k] = OwnEntry(i)

\* two candidates, six fetches: the first one's current fetch came back empty
\* and only the second one is ranked
C29_Witness ==
    /\ OkResult /\ ~ShortCircuited
    /\ dimensions = <<"region", "product">> /\ Len(fetches) = 6
    /\ fetches[3].outcome = "ok" /\ fetches[3].rows = 0
    /\ GotRows(4) /\ GotRows(5) /\ GotRows(6)
    /\ ImpactDimensions = {"product"}
    /\ Res.dimension_impacts[1] = OwnEntry(2)

-----------------------------------------------------------------------------
(* Properties of total_pct_change *)

\* C25 as stated: in every ok = true result total_pct_change is None whenever
\* previous_value is 0 and otherwise total_delta / previous_value * 100
\* rounded to one decimal.
C25_PctChangeNoneOnZeroPrevious ==
    OkResult =>
        IF Res.previous_value = 0
        THEN Res.total_pct_change = None
        ELSE Res.total_pct_change = Some(RoundPct1(Res.total_delta, Res.previous_value))

\* C25 amended: in an ok = true result whose fetched totals differ by at
\* least Epsilon, total_pct_change is None whenever the fetched previous total
\* is 0 and otherwise the unrounded difference / previous total * 100 rounded
\* to one decimal, next to total_delta and previous_value rounded to two
\* decimals; in the result of the early return total_pct_change is 0.0 and
\* total_delta is 0.0, whatever the previous total is.
C25_PctChangeNoneOnZeroPreviousUnlessShortCircuit ==
    OkResult =>
        IF ShortCircuited
        THEN /\ Res.total_pct_change = Some(0) /\ Res.total_delta = 0
             /\ Res.previous_value = Totals.previous_value
        ELSE /\ Res.total_delta = Round2(Totals.total_delta)
             /\ Res.previous_value = Round2(Totals.previous_value)
             /\ IF Totals.previous_value = 0
                THEN Res.total_pct_change = None
                ELSE Res.total_pct_change
                        = Some(RoundPct1(Totals.total_delta, Totals.previous_value))

\* the metric went from 0 to 1.8: a full result without a percentage
C25_Witness ==
    /\ OkResult /\ ~ShortCircuited
    /\ Totals.previous_value = 0 /\ Res.previous_value = 0
    /\ Res.current_value = 1800
    /\ Res.total_pct_change = None
    /\ Res.dimension_impacts # <<>>

-----------------------------------------------------------------------------
(* The windows of period_date_ranges against each other *)

\* C26: for every reference date and each of week, month and quarter the
\* previous window ends before the current window starts
\* (prev_end < cur_start), so no day is in both windows.
C26_PreviousBeforeCurrent ==
    (CalcIs("period_date_ranges") /\ Calc.period \in {"week", "month", "quarter"})
    => /\ Calc.out # None
       /\ IsoOrdinal(Ranges[2][2]) < IsoOrdinal(Ranges[1][1])

-----------------------------------------------------------------------------
(* Properties of the dimension discovery *)

\* the names of the dimensions the model of the call flags as time dimensions
TimeDimensions ==
    {Val(args).core.dimensions[n].name :
        n \in {m \in DOMAIN Val(args).core.dimensions :
                  Val(args).core.dimensions[m].is_time_dimension}}

\* C24: when the caller passes no dimension list, no per-dimension fetch
\* groups by a time dimension of the model, and no time dimension is in
\* dimension_impacts or is top_dimension.
C24_NoTimeDimension ==
    (args # None /\ Val(args).dimensions = None)
    => /\ \A n \in DOMAIN fetches :
             \A i \in DOMAIN fetches[n].dimensions :
                fetches[n].dimensions[i] \notin TimeDimensions
       /\ (pc = "returned" /\ result # None)
          => /\ ImpactDimensions \cap TimeDimensions = {}
             /\ Res.top_dimension # None => Val(Res.top_dimension) \notin TimeDimensions

\* a model with region, date and product: both other dimensions were fetched
\* and ranked, date was not
C24_Witness ==
    /\ pc = "returned" /\ args # None /\ result # None
    /\ Val(args).dimensions = None
    /\ TimeDimensions = {"date"}
    /\ Len(fetches) = 6
    /\ ImpactDimensions = {"region", "product"}
    /\ Res.top_dimension # None

-----------------------------------------------------------------------------
(* Properties of compute_shares *)

\* the coerced metric value of a row given to compute_shares
Clicks(row) == IF "clicks" \in DOMAIN row THEN row.clicks ELSE 0

ClicksTotal == SumSeq([n \in DOMAIN Calc.data |-> Clicks(Calc.data[n])])

\* C13: compute_shares returns one record per row; when the values sum to 0
\* every share_pct is 0.0, otherwise share_pct is value / total * 100 rounded
\* to one decimal and the shares sum to 100.0 within half a tenth per row;
\* every field of the row other than share_pct is kept with its value.
C13_SharesSumToHundred ==
    CalcIs("compute_shares") =>
        /\ Len(Calc.out) = Len(Calc.data)
        /\ \A n \in DOMAIN Calc.out :
              /\ DOMAIN Calc.out[n] = DOMAIN Calc.data[n] \cup {"share_pct"}
              /\ \A f \in DOMAIN Calc.data[n] \ {"share_pct"} :
                    Calc.out[n][f] = Calc.data[n][f]
              /\ ClicksTotal = 0 => Calc.out[n].share_pct = 0
              /\ ClicksTotal > 0 =>
                    Calc.out[n].share_pct = RoundDiv(Clicks(Calc.data[n]) * 1000, ClicksTotal)
              /\ ClicksTotal < 0 =>
                    Calc.out[n].share_pct = RoundDiv(-Clicks(Calc.data[n]) * 1000, -ClicksTotal)
        /\ ClicksTotal # 0 =>
              2 * Abs(SumOf(Calc.out, "share_pct") - 1000) <= Len(Calc.out)

\* a negative value next to a larger positive one: shares of 200.0 and -100.0
C13_Witness ==
    /\ CalcIs("compute_shares") /\ Len(Calc.out) = 2
    /\ Calc.out[1].share_pct = 2000 /\ Calc.out[2].share_pct = -1000
    /\ Calc.out[1].p = "A" /\ Calc.out[1].clicks = 1000

-----------------------------------------------------------------------------
(* Properties of allowed_metrics and allowed_dimensions *)

\* the user has a mapping in cfg.users
Mapped == Calc.user_id # None
          /\ \E n \in DOMAIN Calc.cfg.users : Calc.cfg.users[n].user_id = Val(Calc.user_id)

\* the roles of the user's first mapping, or the default role
UserRoles ==
    IF Mapped
    THEN LET first == CHOOSE n \in DOMAIN Calc.cfg.users :
                         /\ Calc.cfg.users[n].user_id = Val(Calc.user_id)
                         /\ \A m \in 1..(n - 1) :
                               Calc.cfg.users[m].user_id # Val(Calc.user_id)
         IN  {Calc.cfg.users[first].roles[k] : k \in DOMAIN Calc.cfg.users[first].roles}
    ELSE Calc.cfg.default_role

\* the policies of the user's roles that the configuration defines
UserPolicies == {Calc.cfg.roles[r] : r \in UserRoles \cap DOMAIN Calc.cfg.roles}

\* the union of the lists in field of the user's roles
UnionOf(field) ==
    UNION {{Val(p[field])[k] : k \in DOMAIN Val(p[field])} :
              p \in {q \in UserPolicies : q[field] # None}}

\* C14: for a user with one or more roles allowed_metrics and allowed_dimensions
\* return None when one of the roles has a null list and the union of the
\* roles' lists otherwise; a user without a mapping is treated as having the
\* default role, and gets None when there is no default role.
C14_AllowedIsUnionOfRoles ==
    CalcIs("allowed") =>
        /\ UserRoles # {} =>
              \A field \in {"metrics", "dimensions"} :
                  Calc[field] = IF \E p \in UserPolicies : p[field] = None
                                THEN None ELSE Some(UnionOf(field))
        /\ (~Mapped /\ Calc.cfg.default_role = None) =>
              Calc.metrics = None /\ Calc.dimensions = None

\* two roles: the metrics are the union, the dimensions are open because the
\* second role has a null dimension list
C14_Witness ==
    /\ CalcIs("allowed") /\ Calc.user_id = Some("alice")
    /\ UserRoles = {"analyst", "viewer"}
    /\ DOMAIN Calc.cfg.roles = DOMAIN RolePolicies
    /\ Calc.metrics = Some({"revenue", "orders"})
    /\ Calc.dimensions = None

-----------------------------------------------------------------------------
(* Two calls with the same arguments against the same collaborator *)

First == Val(replay)

-----------------------------------------------------------------------------
(* The tool calls of one agent run *)

Saved(tools) ==
    {n \in DOMAIN tool_calls : tool_calls[n].saved /\ tool_calls[n].tool \in tools}

\* C15: the tool calls of an agent run that includes query_metric, export or
\* generate_chart never overlap: at most one call is between its read and its
\* write of the session, nothing was saved since that read, every file a
\* finished export or generate_chart appended is in the stored pending_files,
\* and the stored last query is the one of the latest query_metric that saved.
C15_MutatingToolsDoNotInterleave ==
    pc = "agent_run" =>
        /\ Cardinality({n \in DOMAIN tool_calls : tool_calls[n].pc = "read"}) <= 1
        /\ \A n \in DOMAIN tool_calls :
              tool_calls[n].pc = "read" => tool_calls[n].seen = store.writes
        /\ store.writes = Cardinality(Saved(ToolNames))
        /\ \A n \in Saved({"export", "generate_chart"}) :
              \E k \in DOMAIN FromDict(store.raw).pending_files :
                  FromDict(store.raw).pending_files[k] = n
        /\ \A n \in Saved({"query_metric"}) :
              (\A m \in Saved({"query_metric"}) : m <= n)
                  => FromDict(store.raw).last_query_data = <<n>>

\* a query, an export and a chart in one response: all three saved
C15_Witness ==
    /\ pc = "agent_run" /\ Len(tool_calls) = 3
    /\ tool_calls[1].tool = "query_metric" /\ tool_calls[2].tool = "export"
    /\ tool_calls[3].tool = "generate_chart"
    /\ \A n \in 1..3 : tool_calls[n].pc = "done" /\ tool_calls[n].saved
    /\ store.raw = Some([last_query_data |-> <<1>>, last_query_params |-> Some(1),
                         pending_files |-> <<2, 3>>])

-----------------------------------------------------------------------------
(* Properties of the pending files of a session *)

\* the elements of a sequence
Elements(s) == {s[n] : n \in DOMAIN s}

\* the files appended to the session's pending_files so far
Appended ==
    Elements(uploader.had)
        \cup {n \in DOMAIN tool_calls :
                 tool_calls[n].saved /\ tool_calls[n].tool \in {"export", "generate_chart"}}

\* C30: a file appended to the pending_files of a session is still in the
\* stored session state or has been read by the uploader for upload, also
\* while the uploader runs next to a tool call of another request on the
\* same session.
C30_PendingFileReadBeforeRemoved ==
    uploader.pc # "off"
    => \A f \in Appended :
          \/ f \in Elements(get_pending_files_for_session(store.raw))
          \/ f \in Elements(uploader.files)

\* C30, second half: clear_pending_files_for_session changes pending_files
\* only and leaves a session that does not exist absent.
C30_ClearOnlyEmptiesPendingFiles ==
    [][UploaderClear =>
         IF store.raw = None THEN store'.raw = None
         ELSE /\ store'.raw # None
              /\ DOMAIN Val(store'.raw) = DOMAIN Val(store.raw)
              /\ \A f \in DOMAIN Val(store.raw) \ {"pending_files"} :
                    Val(store'.raw)[f] = Val(store.raw)[f]
              /\ Val(store'.raw).pending_files = <<>>]_vars

====
